---- MODULE Spec2Model ----
(***************************************************************************)
(* A model of orbix's request execution layer: the TTL/LRU response cache  *)
(* (APICache), the sliding-window rate gate (rate_limit), the retry policy *)
(* (retry_on_failure), the request executor (HTTPClient.request) and the   *)
(* decorated client operations that compose them.                          *)
(*                                                                         *)
(* Time is the value of time.time(), counted in ticks of 1/TicksPerSecond   *)
(* of a second, so that fractions of a second exist.                       *)
(***************************************************************************)
EXTENDS Integers, Sequences, FiniteSets, TLC

VARIABLES
    now,          \* time.time()
    cache,        \* APICache._cache: OrderedDict, oldest first, of [key, timestamp, value]
    stored,       \* history: key -> the last set(key, value) and its time, or NoEntry
    recency,      \* history: keys by last use (set or successful get), most recent last
    cache_last,   \* history: the last APICache operation and what it returned
    call_times,   \* rate_limit's deque of one decorated operation
    gate_last,    \* history: the last call of that operation, its outcome, all admissions
    windows,      \* rate_limit's deques of the client operations: op -> deque
    task,         \* the callers of the client: where each one is in its call
    http,         \* the callers of HTTPClient.request: where each one is in its request
    key_last,     \* history: the requests whose cache key was computed, and the keys
    fan,          \* the caller of get_user_avatar or get_user: where it is in its call
    metrics       \* PerformanceMonitor._metrics: the list of RequestMetrics

vars == <<now, cache, stored, recency, cache_last, call_times, gate_last,
          windows, task, http, key_last, fan, metrics>>

cacheVars == <<cache, stored, recency, cache_last>>
gateVars == <<call_times, gate_last>>
pureVars == <<key_last, fan, metrics>>

-----------------------------------------------------------------------------
(* Bounds of the model. The cache's ttl and max_size and the gate's        *)
(* calls_per_minute are parameters of the code (300, 1000 and 60..180 in   *)
(* the client); the model runs them at small values.                       *)

ttl == 2
max_size == 2
calls_per_minute == 2
TicksPerSecond == 2
MaxGateSlack == 3
MaxClientSeconds == 22
MaxCalls == 3
MaxKeyParams == 2

(* Program constants. *)
WindowSeconds == 60
max_retries == 3
backoff_factor == 1
MaxUsersBatch == 100
MaxPresenceBatch == 20
MaxGamesBatch == 100
max_metrics == 1000
chunk_size == 50

None == "None"
\* None where the other values are integers (a status code, retry_after)
NoInt == -1
NoEntry == [at |-> -1, value |-> None]

Keys == 1 .. (max_size + 1)
Values == {"v1", "v2"}
Seconds(n) == n * TicksPerSecond
MaxCacheTime == Seconds(ttl + 1)
MaxGateTime == Seconds(WindowSeconds) + MaxGateSlack

-----------------------------------------------------------------------------
(* APICache *)

CacheKeys(c) == {c[i].key : i \in DOMAIN c}

Entry(c, k) == c[CHOOSE i \in DOMAIN c : c[i].key = k]

Delete(c, k) == SelectSeq(c, LAMBDA e : e.key # k)

\* OrderedDict.move_to_end(key)
MoveToEnd(c, k) == Append(Delete(c, k), Entry(c, k))

\* mutant of APICache_get: an entry expires when its age reaches ttl
APICache_get_ge(c, k, t) ==
    IF k \notin CacheKeys(c)
    THEN [value |-> None, cache |-> c]
    ELSE IF t - Entry(c, k).timestamp >= Seconds(ttl)
         THEN [value |-> None, cache |-> Delete(c, k)]
         ELSE [value |-> Entry(c, k).value, cache |-> MoveToEnd(c, k)]

\* mutant of APICache_get: a hit does not call move_to_end
APICache_get_nomove(c, k, t) ==
    IF k \notin CacheKeys(c)
    THEN [value |-> None, cache |-> c]
    ELSE IF t - Entry(c, k).timestamp > Seconds(ttl)
         THEN [value |-> None, cache |-> Delete(c, k)]
         ELSE [value |-> Entry(c, k).value, cache |-> c]

\* APICache.get: the value returned and the cache it leaves
APICache_get(c, k, t) ==
    IF k \notin CacheKeys(c)
    THEN [value |-> None, cache |-> c]
    ELSE IF t - Entry(c, k).timestamp > Seconds(ttl)
         THEN [value |-> None, cache |-> Delete(c, k)]
         ELSE [value |-> Entry(c, k).value, cache |-> MoveToEnd(c, k)]

\* mutant of Evict: evicts while len(self._cache) > self._max_size
RECURSIVE Evict_gt(_)
Evict_gt(c) == IF Len(c) > max_size /\ Len(c) > 0 THEN Evict_gt(Tail(c)) ELSE c

\* while len(self._cache) >= self._max_size: self._cache.popitem(last=False)
RECURSIVE Evict(_)
Evict(c) == IF Len(c) >= max_size /\ Len(c) > 0 THEN Evict(Tail(c)) ELSE c

\* mutant of APICache_set: an entry that exists is overwritten where it stands
APICache_set_inplace(c, k, v, t) ==
    IF k \in CacheKeys(c)
    THEN [i \in DOMAIN c |-> IF c[i].key = k
                             THEN [key |-> k, timestamp |-> t, value |-> v]
                             ELSE c[i]]
    ELSE Append(Evict(c), [key |-> k, timestamp |-> t, value |-> v])

\* APICache.set
APICache_set(c, k, v, t) ==
    LET c1 == IF k \in CacheKeys(c) THEN Delete(c, k) ELSE c
    IN  Append(Evict(c1), [key |-> k, timestamp |-> t, value |-> v])

\* APICache.clear
APICache_clear(c) == << >>

\* history: a key becomes the most recently used one
Touch(r, k) == Append(SelectSeq(r, LAMBDA x : x # k), k)

\* history: the keys that are no longer in the cache are forgotten
KeepStored(s, c) == [k \in Keys |-> IF k \in CacheKeys(c) THEN s[k] ELSE NoEntry]
KeepRecency(r, c) == SelectSeq(r, LAMBDA x : x \in CacheKeys(c))

NoCacheOp == [op |-> "none", key |-> 0, value |-> None, at |-> 0, before |-> NoEntry,
              keys |-> {}, lru |-> 0]

\* history: what a cache operation on key k saw before it ran
Seen(k) == [key |-> k, at |-> now, before |-> stored[k], keys |-> CacheKeys(cache),
            lru |-> IF recency = << >> THEN 0 ELSE Head(recency)]

CacheGet(k) ==
    LET r == APICache_get(cache, k, now)
        live == stored[k] # NoEntry /\ now - stored[k].at <= Seconds(ttl)
    IN  /\ cache' = r.cache
        /\ cache_last' = [op |-> "get", value |-> r.value] @@ Seen(k)
        /\ stored' = KeepStored(stored, cache')
        /\ recency' = KeepRecency(IF live THEN Touch(recency, k) ELSE recency, cache')
        /\ UNCHANGED <<now, gateVars, windows, task, http, pureVars>>

CacheSet(k, v) ==
    /\ cache' = APICache_set(cache, k, v, now)
    /\ stored' = KeepStored([stored EXCEPT ![k] = [at |-> now, value |-> v]], cache')
    /\ recency' = KeepRecency(Touch(recency, k), cache')
    /\ cache_last' = [op |-> "set", value |-> v] @@ Seen(k)
    /\ UNCHANGED <<now, gateVars, windows, task, http, pureVars>>

CacheClear ==
    /\ cache' = APICache_clear(cache)
    /\ cache_last' = [NoCacheOp EXCEPT !.op = "clear", !.at = now]
    /\ stored' = KeepStored(stored, cache')
    /\ recency' = KeepRecency(recency, cache')
    /\ UNCHANGED <<now, gateVars, windows, task, http, pureVars>>

\* the clock of SpecCache moves a second at a time
CacheTick ==
    /\ now + Seconds(1) <= MaxCacheTime
    /\ now' = now + Seconds(1)
    /\ UNCHANGED <<cacheVars, gateVars, windows, task, http, pureVars>>

-----------------------------------------------------------------------------
(* rate_limit *)

\* mutant of Purge: an if in place of the while, one popleft at most
Purge_once(ct, t) ==
    IF ct # << >> /\ t - Head(ct) >= Seconds(WindowSeconds) THEN Tail(ct) ELSE ct

\* while call_times and now - call_times[0] >= 60: call_times.popleft()
RECURSIVE Purge(_, _)
Purge(ct, t) ==
    IF ct # << >> /\ t - Head(ct) >= Seconds(WindowSeconds)
    THEN Purge(Tail(ct), t)
    ELSE ct

\* int(sleep_time), sleep_time = 60 - (now - call_times[0]) > 0, in seconds
RetryAfter(ct, t) == (Seconds(WindowSeconds) - (t - Head(ct))) \div TicksPerSecond

\* mutant of RateLimit: rejects when len(call_times) > calls_per_minute
RateLimit_gt(ct, t) ==
    LET p == Purge(ct, t)
    IN  IF Len(p) > calls_per_minute
        THEN [admitted |-> FALSE, call_times |-> p, retry_after |-> RetryAfter(p, t)]
        ELSE [admitted |-> TRUE, call_times |-> Append(p, t), retry_after |-> 0]

\* mutant of RateLimit: the timestamp is appended before the check
RateLimit_appendfirst(ct, t) ==
    LET p == Append(Purge(ct, t), t)
    IN  IF Len(p) > calls_per_minute
        THEN [admitted |-> FALSE, call_times |-> p, retry_after |-> RetryAfter(p, t)]
        ELSE [admitted |-> TRUE, call_times |-> p, retry_after |-> 0]

\* mutant of RateLimit: the deque is created in wrapper, anew for every call
RateLimit_fresh(ct, t) ==
    [admitted |-> TRUE, call_times |-> <<t>>, retry_after |-> 0]

\* rate_limit's wrapper up to its call of func: the deque it leaves, and whether it
\* goes on to func or raises RateLimitError(retry_after)
RateLimit(ct, t) ==
    LET p == Purge(ct, t)
    IN  IF Len(p) >= calls_per_minute
        THEN [admitted |-> FALSE, call_times |-> p, retry_after |-> RetryAfter(p, t)]
        ELSE [admitted |-> TRUE, call_times |-> Append(p, t), retry_after |-> 0]

\* history: how many of the admissions are less than 60 s old at time t
Recent(adm, t) == Cardinality({i \in DOMAIN adm : t - adm[i] < Seconds(WindowSeconds)})

\* A call of an operation decorated with rate_limit alone; the operation itself
\* returns at once.
GateCall ==
    LET r == RateLimit(call_times, now)
    IN  /\ call_times' = r.call_times
        /\ gate_last' = [outcome |-> IF r.admitted THEN "admitted" ELSE "RateLimitError",
                         retry_after |-> r.retry_after,
                         at |-> now,
                         recent |-> Recent(gate_last.admissions, now),
                         rejected |-> gate_last.rejected \/ ~r.admitted,
                         admissions |-> IF r.admitted
                                        THEN Append(gate_last.admissions, now)
                                        ELSE gate_last.admissions]
        /\ UNCHANGED <<now, cacheVars, windows, task, http, pureVars>>

\* the clock of SpecGate is read in the first ticks and again around the time
\* the first ticks are 60 s old
GateTimes == (0 .. MaxGateSlack) \cup ((Seconds(WindowSeconds) - 1) .. MaxGateTime)

GateTick(t) ==
    /\ t > now
    /\ now' = t
    /\ UNCHANGED <<cacheVars, gateVars, windows, task, http, pureVars>>

-----------------------------------------------------------------------------
(* PerformanceMonitor *)

RequestMetrics(endpoint, method, duration, success, cached) ==
    [endpoint |-> endpoint, method |-> method, duration |-> duration,
     success |-> success, cached |-> cached]

\* PerformanceMonitor._add_metric
AddMetric(ms, metric) ==
    IF Len(ms) + 1 > max_metrics THEN Tail(Append(ms, metric)) ELSE Append(ms, metric)

\* PerformanceMonitor.track_request around a block entered at time t0 and left
\* at time t1, by a return (success) or by an exception: the list it leaves.
\* Nothing in HTTPClient or OrbixClient enters it.
track_request(ms, endpoint, method, cached, t0, t1, success) ==
    AddMetric(ms, RequestMetrics(endpoint, method, t1 - t0, success, cached))

-----------------------------------------------------------------------------
(* HTTPClient *)

\* A text is a sequence of pieces (strings that are never split); joining texts
\* is \o. A parameter value is an int or a str.
IntVal(n) == <<"int", ToString(n)>>
StrVal(text) == <<"str">> \o text

\* A parameter name is known by its place among the names in sorted order.
ParamName(i) == <<"a", "b", "c", "d">>[i]

\* A request: method, url (<<endpoint_type, path>>, the path a text), params (a
\* dict, as the sequence of its <<name, value>> items in insertion order; None
\* and {} are both << >>) and use_cache.
Req(method, url, params, use_cache) ==
    [method |-> method, url |-> url, params |-> params, use_cache |-> use_cache]

\* the items of a dict in the order of their names (sort_keys=True)
RECURSIVE SortItems(_)
SortItems(items) ==
    IF items = << >> THEN << >>
    ELSE LET least == CHOOSE i \in DOMAIN items :
                          \A j \in DOMAIN items : items[i][1] <= items[j][1]
         IN  <<items[least]>> \o
             SortItems(SelectSeq(items, LAMBDA x : x[1] # items[least][1]))

\* json.dumps of the characters of a str: the quote and the backslash are escaped
RECURSIVE Escape(_)
Escape(text) ==
    IF text = << >> THEN << >>
    ELSE (IF Head(text) \in {"\"", "\\"} THEN <<"\\", Head(text)>> ELSE <<Head(text)>>)
         \o Escape(Tail(text))

\* json.dumps of a value
JsonValue(v) ==
    IF v[1] = "int" THEN <<v[2]>> ELSE <<"\"">> \o Escape(Tail(v)) \o <<"\"">>

\* json.dumps of one item of a dict: "name": value
JsonItem(item) == <<"\"", ParamName(item[1]), "\"", ":", " ">> \o JsonValue(item[2])

RECURSIVE JsonItems(_)
JsonItems(items) ==
    IF Len(items) = 1 THEN JsonItem(items[1])
    ELSE JsonItem(Head(items)) \o <<",", " ">> \o JsonItems(Tail(items))

\* mutant of Dumps: the items are written in insertion order
Dumps_unsorted(params) ==
    IF params = << >> THEN << >> ELSE <<"{">> \o JsonItems(params) \o <<"}">>

\* dumps(params, sort_keys=True) if params else ''
Dumps(params) ==
    IF params = << >> THEN << >> ELSE <<"{">> \o JsonItems(SortItems(params)) \o <<"}">>

\* _API_ENDPOINTS.get(endpoint_type, "https://api.roblox.com")
get_api_endpoint(endpoint_type) ==
    IF endpoint_type \in {"users", "thumbnails", "games", "badges", "friends", "presence"}
    THEN <<"https", ":", "//", endpoint_type, ".roblox.com">>
    ELSE <<"https", ":", "//", "api", ".roblox.com">>

\* url = f"{base_url}{path}"
ResolveUrl(url) == get_api_endpoint(url[1]) \o url[2]

\* cache_key = f"{method}:{url}:{dumps(params, sort_keys=True) if params else ''}"
CacheKey(req) ==
    <<req.method, ":">> \o ResolveUrl(req.url) \o <<":">> \o Dumps(req.params)

\* an exception: its class and what it carries
Err(type, status, message, retry_after) ==
    [type |-> type, status |-> status, message |-> message, retry_after |-> retry_after]

NoError == Err("none", NoInt, "", NoInt)

Ok(value) == [kind |-> "ok", value |-> value]
Raised(err) == [kind |-> "error", error |-> err]
NoResult == [kind |-> "none"]

\* the query string of the request url: ?name=value&..., in insertion order
RECURSIVE QueryItems(_)
QueryItems(items) ==
    LET one == <<ParamName(items[1][1]), "=">> \o Tail(items[1][2])
    IN  IF Len(items) = 1 THEN one ELSE one \o <<"&">> \o QueryItems(Tail(items))

\* str(response.url): the resolved url and the query string
ResponseUrl(req) ==
    ResolveUrl(req.url) \o
    (IF req.params = << >> THEN << >> ELSE <<"?">> \o QueryItems(req.params))

\* mutant of IsUserUrl: "/users" in str(response.url)
IsUserUrl_nosep(req) ==
    LET text == ResponseUrl(req)
    IN  \E i \in 1 .. (Len(text) - 1) : text[i] = "/" /\ text[i + 1] = "users"

\* "/users/" in str(response.url)
IsUserUrl(req) ==
    LET text == ResponseUrl(req)
    IN  \E i \in 1 .. (Len(text) - 2) :
            text[i] = "/" /\ text[i + 1] = "users" /\ text[i + 2] = "/"

\* The Retry-After header: None when missing, else its text. int() of the text
\* is an integer for decimal digits and raises ValueError for anything else
\* (an HTTP-date, for one).
Headers == {None, "7", "", "Wed, 21 Oct 2015 07:28:00 GMT"}
IsIntText(h) == h = "7"
ParseInt(h) == IF h = "7" THEN 7 ELSE 0

\* A parsed body is None (empty body or JSON null), a list, a dict without
\* "message", or the dict {"message": "boom"}; only a dict has .get.
IsDict(body) == body \in {"b1", "dict", "boom"}
GetMessage(body, default) == IF body = "boom" THEN "boom" ELSE default

\* int(retry_after) if retry_after else None: the exception the 429 branch raises
RetryAfterHeader(h) ==
    IF h = None \/ h = ""
    THEN Err("RateLimitError", NoInt, "rate limited", NoInt)
    ELSE IF IsIntText(h)
    THEN Err("RateLimitError", NoInt, "rate limited", ParseInt(h))
    ELSE Err("ValueError", NoInt, "invalid literal for int()", NoInt)

\* HTTPClient._handle_response_errors: None, or the exception it raises
HandleResponseErrors(resp, req) ==
    IF resp.status = 200 THEN NoError
    ELSE IF resp.status = 404
         THEN IF IsUserUrl(req)
              THEN Err("UserNotFoundError", NoInt, "not found", NoInt)
              ELSE Err("RobloxAPIError", 404, "resource not found", NoInt)
    ELSE IF resp.status = 429
         THEN RetryAfterHeader(resp.header)
    ELSE IF resp.json \in {"JSONDecodeError", "ContentTypeError"}
         THEN Err("RobloxAPIError", resp.status, "HTTP status", NoInt)
    ELSE IF IsDict(resp.body)
         THEN Err("RobloxAPIError", resp.status,
                  GetMessage(resp.body, "HTTP status"), NoInt)
         ELSE Err("AttributeError", NoInt, "no attribute get", NoInt)

\* HTTPClient.request up to the exchange: the cache lookup of a GET with use_cache
RequestLookup(c, req, t) ==
    IF req.method = "GET" /\ req.use_cache
    THEN APICache_get(c, CacheKey(req), t)
    ELSE [value |-> None, cache |-> c]

\* mutant of RequestFinish: a success is stored whenever use_cache is set
RequestFinish_anymethod(c, req, resp, t) ==
    IF resp.json = "transport"
    THEN [result |-> Raised(Err("NetworkError", NoInt, resp.body, NoInt)), cache |-> c]
    ELSE IF HandleResponseErrors(resp, req) # NoError
    THEN [result |-> Raised(HandleResponseErrors(resp, req)), cache |-> c]
    ELSE IF resp.json = "ContentTypeError"
    THEN [result |-> Raised(Err("NetworkError", NoInt, "ContentTypeError", NoInt)),
          cache |-> c]
    ELSE IF resp.json = "JSONDecodeError"
    THEN [result |-> Raised(Err("JSONDecodeError", NoInt, "JSONDecodeError", NoInt)),
          cache |-> c]
    ELSE [result |-> Ok(resp.body),
          cache |-> IF req.use_cache
                    THEN APICache_set(c, CacheKey(req), resp.body, t)
                    ELSE c]

\* mutant of RequestFinish: the errors of the classification are caught with the
\* transport's and raised as NetworkError
RequestFinish_wrapall(c, req, resp, t) ==
    IF resp.json = "transport"
    THEN [result |-> Raised(Err("NetworkError", NoInt, resp.body, NoInt)), cache |-> c]
    ELSE IF HandleResponseErrors(resp, req) # NoError
    THEN [result |-> Raised(Err("NetworkError", NoInt,
                                HandleResponseErrors(resp, req).message, NoInt)),
          cache |-> c]
    ELSE IF resp.json = "ContentTypeError"
    THEN [result |-> Raised(Err("NetworkError", NoInt, "ContentTypeError", NoInt)),
          cache |-> c]
    ELSE IF resp.json = "JSONDecodeError"
    THEN [result |-> Raised(Err("JSONDecodeError", NoInt, "JSONDecodeError", NoInt)),
          cache |-> c]
    ELSE [result |-> Ok(resp.body),
          cache |-> IF req.method = "GET" /\ req.use_cache
                    THEN APICache_set(c, CacheKey(req), resp.body, t)
                    ELSE c]

\* mutant of RequestFinish: the body of a response that was classified as an error
\* is stored under the key of a GET with use_cache before the error is raised
RequestFinish_cacheerrors(c, req, resp, t) ==
    IF resp.json = "transport"
    THEN [result |-> Raised(Err("NetworkError", NoInt, resp.body, NoInt)), cache |-> c]
    ELSE IF HandleResponseErrors(resp, req) # NoError
    THEN [result |-> Raised(HandleResponseErrors(resp, req)),
          cache |-> IF req.method = "GET" /\ req.use_cache
                    THEN APICache_set(c, CacheKey(req), resp.body, t)
                    ELSE c]
    ELSE IF resp.json = "ContentTypeError"
    THEN [result |-> Raised(Err("NetworkError", NoInt, "ContentTypeError", NoInt)),
          cache |-> c]
    ELSE IF resp.json = "JSONDecodeError"
    THEN [result |-> Raised(Err("JSONDecodeError", NoInt, "JSONDecodeError", NoInt)),
          cache |-> c]
    ELSE [result |-> Ok(resp.body),
          cache |-> IF req.method = "GET" /\ req.use_cache
                    THEN APICache_set(c, CacheKey(req), resp.body, t)
                    ELSE c]

\* HTTPClient.request from the end of the exchange: what it returns or raises, and
\* the cache it leaves
RequestFinish(c, req, resp, t) ==
    IF resp.json = "transport"
    THEN [result |-> Raised(Err("NetworkError", NoInt, resp.body, NoInt)), cache |-> c]
    ELSE IF HandleResponseErrors(resp, req) # NoError
    THEN [result |-> Raised(HandleResponseErrors(resp, req)), cache |-> c]
    ELSE IF resp.json = "ContentTypeError"
    THEN [result |-> Raised(Err("NetworkError", NoInt, "ContentTypeError", NoInt)),
          cache |-> c]
    ELSE IF resp.json = "JSONDecodeError"
    THEN [result |-> Raised(Err("JSONDecodeError", NoInt, "JSONDecodeError", NoInt)),
          cache |-> c]
    ELSE [result |-> Ok(resp.body),
          cache |-> IF req.method = "GET" /\ req.use_cache
                    THEN APICache_set(c, CacheKey(req), resp.body, t)
                    ELSE c]

\* What the transport can answer: a status, what response.json() does ("ok", or
\* the exception it raises; "transport" when the exchange itself fails, body then
\* naming the cause), the value response.json() returns (None for an empty body
\* or a JSON null) and the Retry-After header.
Resp(status, json, body, header) ==
    [status |-> status, json |-> json, body |-> body, header |-> header]

NoResp == Resp(0, "none", None, None)

Bodies == {None, "b1"}
ErrorBodies == {None, "list", "dict", "boom"}

\* history: the live entry the cache holds for a key at time t, if any
Live(c, k, t) ==
    IF \E i \in DOMAIN c : c[i].key = k /\ t - c[i].timestamp <= Seconds(ttl)
    THEN [present |-> TRUE, value |-> Entry(c, k).value]
    ELSE [present |-> FALSE, value |-> None]

\* history: the keys of cache c that cache d no longer holds
Removed(c, d) == CacheKeys(c) \ CacheKeys(d)

\* history: cache d holds an entry that cache c does not hold, added or replaced
Written(c, d) == \E i \in DOMAIN d : \A j \in DOMAIN c : c[j] # d[i]

HttpIdle == [pc |-> "idle", req |-> Req("GET", <<"users", <<"/", "v1">>>>, << >>, FALSE),
             resp |-> NoResp, result |-> NoResult, exchanged |-> FALSE, touched |-> FALSE,
             removed |-> {}, written |-> FALSE,
             live |-> [present |-> FALSE, value |-> None]]

\* mutant of Requested: a caller that misses while another caller's exchange for
\* the same key is in flight waits for that exchange
Requested_coalesced(c, req, t) ==
    LET r == RequestLookup(c, req, t)
        hit == r.value # None
        inflight == \E g \in DOMAIN http :
                        http[g].pc = "exchange" /\ CacheKey(http[g].req) = CacheKey(req)
    IN  [pc |-> IF hit THEN "done" ELSE IF inflight THEN "wait" ELSE "exchange",
         req |-> req,
         resp |-> NoResp,
         result |-> IF hit THEN Ok(r.value) ELSE NoResult,
         exchanged |-> ~hit /\ ~inflight,
         touched |-> r.cache # c,
         removed |-> Removed(c, r.cache),
         written |-> Written(c, r.cache),
         live |-> Live(c, CacheKey(req), t)]

\* where a caller of request is after the lookup of req in cache c at time t: at
\* the exchange, or done with the cached value
Requested(c, req, t) ==
    LET r == RequestLookup(c, req, t)
        hit == r.value # None
    IN  [pc |-> IF hit THEN "done" ELSE "exchange",
         req |-> req,
         resp |-> NoResp,
         result |-> IF hit THEN Ok(r.value) ELSE NoResult,
         exchanged |-> ~hit,
         touched |-> r.cache # c,
         removed |-> Removed(c, r.cache),
         written |-> Written(c, r.cache),
         live |-> Live(c, CacheKey(req), t)]

Request(h, req) ==
    LET r == RequestLookup(cache, req, now)
    IN  /\ http[h].pc \in {"idle", "done"}
        /\ cache' = r.cache
        /\ http' = [http EXCEPT ![h] = Requested(cache, req, now)]
        /\ UNCHANGED <<now, stored, recency, cache_last, gateVars, windows, task, pureVars>>

\* the exchange of caller h ends with resp: request classifies it, stores a
\* success and returns or raises
Respond(h, resp) ==
    LET r == RequestFinish(cache, http[h].req, resp, now)
    IN  /\ http[h].pc = "exchange"
        /\ cache' = r.cache
        /\ http' = [http EXCEPT ![h] =
                       [@ EXCEPT !.pc = "done", !.resp = resp, !.result = r.result,
                                 !.touched = @ \/ r.cache # cache,
                                 !.removed = @ \cup Removed(cache, r.cache),
                                 !.written = @ \/ Written(cache, r.cache)]]
        /\ UNCHANGED <<now, stored, recency, cache_last, gateVars, windows, task, pureVars>>

\* the clock of SpecHTTP is read at 0, and when an entry stored at 0 is ttl old
\* and a second older
HttpTimes == {0, Seconds(ttl), Seconds(ttl + 1)}

HttpTick(t) ==
    /\ t > now
    /\ now' = t
    /\ UNCHANGED <<cacheVars, gateVars, windows, task, http, pureVars>>

Callers == {1, 2, 3}
HttpUrls == {<<"users", <<"/", "v1", "/", "users", "/", "1">>>>}
HttpParams == {<< >>, <<<<1, StrVal(<<"x">>)>>>>, <<<<1, StrVal(<<"y">>)>>>>}
HttpRequests ==
    {Req("GET", u, ps, TRUE) : u \in HttpUrls, ps \in HttpParams}
    \cup {Req("GET", u, << >>, FALSE) : u \in HttpUrls}
    \cup {Req("POST", u, << >>, uc) : u \in HttpUrls, uc \in BOOLEAN}

\* the answers of the transport in SpecHTTP: one of each class
HttpResponses ==
    {Resp(200, "ok", b, None) : b \in Bodies}
    \cup {Resp(404, "ok", None, None), Resp(429, "ok", None, "7"),
          Resp(500, "ok", "boom", None), Resp(0, "transport", "ClientError", None)}

\* every answer of the transport, for the classification of responses
Responses ==
    {Resp(200, "ok", b, None) : b \in Bodies}
    \cup {Resp(200, j, None, None) : j \in {"ContentTypeError", "JSONDecodeError"}}
    \cup {Resp(404, "ok", None, None)}
    \cup {Resp(429, "ok", None, h) : h \in Headers}
    \cup {Resp(500, "ok", b, None) : b \in ErrorBodies}
    \cup {Resp(500, j, None, None) : j \in {"ContentTypeError", "JSONDecodeError"}}
    \cup {Resp(0, "transport", e, None) : e \in {"ClientError", "TimeoutError"}}

\* the requests whose answers are classified: the path of one user, the path of
\* the batch of users and a path of games
ClassifyUrls ==
    {<<"users", <<"/", "v1", "/", "users", "/", "1">>>>,
     <<"users", <<"/", "v1", "/", "users">>>>,
     <<"games", <<"/", "v1", "/", "games">>>>}
ClassifyRequests ==
    {Req("GET", u, << >>, TRUE) : u \in ClassifyUrls}
    \cup {Req("POST", u, << >>, FALSE) : u \in ClassifyUrls}
    \cup {Req("GET", <<"games", <<"/", "v1", "/", "games">>>>,
               <<<<1, StrVal(<<"1">>)>>>>, TRUE)}

\* The requests whose keys are compared. A dict of parameters has at most
\* MaxKeyParams names; a value is the int 1 or the str "1". The paths include one
\* that ends like the text of a dict, and two endpoint types are unknown to
\* _API_ENDPOINTS.
KeyNames == 1 .. MaxKeyParams
KeyValues == {IntVal(1), StrVal(<<"1">>)}

RECURSIVE Dicts(_)
Dicts(names) ==
    {<< >>} \cup
    UNION {{<<<<n, v>>>> \o d : v \in KeyValues, d \in Dicts(names \ {n})} : n \in names}

KeyParams == Dicts(KeyNames)
KeyUrls ==
    {<<e, <<"/", "v1">>>> : e \in {"users", "games", "catalog", "economy"}}
    \cup {<<"users", <<"/", "v1", ":", "{", "\"", "a", "\"", ":", " ", "1", "}">>>>}
KeyRequests ==
    {Req(m, u, ps, TRUE) : m \in {"GET", "POST"}, u \in KeyUrls, ps \in KeyParams}

NoKey == [computed |-> FALSE, req |-> Req("GET", <<"users", <<"/", "v1">>>>, << >>, FALSE),
          key |-> << >>]

\* request computes the cache key of the i-th of two requests
ComputeKey(i, req) ==
    /\ ~key_last[i].computed
    /\ i = 2 => key_last[1].computed
    /\ key_last' = [key_last EXCEPT ![i] =
                        [computed |-> TRUE, req |-> req, key |-> CacheKey(req)]]
    /\ UNCHANGED <<now, cacheVars, gateVars, windows, task, http, fan, metrics>>

-----------------------------------------------------------------------------
(* retry_on_failure, and the decorated operations of OrbixClient *)

RECURSIVE Pow2(_)
Pow2(n) == IF n = 0 THEN 1 ELSE 2 * Pow2(n - 1)

\* mutant of RetryHandler: the delay grows by backoff_factor each time
RetryHandler_linear(attempt) ==
    IF attempt = max_retries
    THEN [sleep |-> FALSE, delay |-> 0]
    ELSE [sleep |-> TRUE, delay |-> backoff_factor * (attempt + 1)]

\* mutant of RetryHandler: the loop runs for range(max_retries + 2)
RetryHandler_extra(attempt) ==
    IF attempt = max_retries + 1
    THEN [sleep |-> FALSE, delay |-> 0]
    ELSE [sleep |-> TRUE, delay |-> backoff_factor * Pow2(attempt)]

\* retry_on_failure's except clause in iteration attempt: break and raise
\* last_exception (the exception just caught), or sleep backoff_factor * 2**attempt
RetryHandler(attempt) ==
    IF attempt = max_retries
    THEN [sleep |-> FALSE, delay |-> 0]
    ELSE [sleep |-> TRUE, delay |-> backoff_factor * Pow2(attempt)]

ClientOps ==
    {"get_users_batch", "get_user_presence", "get_game_details",
     "get_game_details_single"}

\* mutant of Decorators: retry_on_failure is applied outside rate_limit
Decorators_retryfirst(op) ==
    IF op = "get_game_details_single"
    THEN <<"retry_on_failure", "rate_limit", "retry_on_failure", "rate_limit">>
    ELSE <<"retry_on_failure", "rate_limit">>

\* The decorators a call of an operation passes, outermost first. The body of
\* get_game_details_single is a call of get_game_details with one identifier, so
\* the decorators of get_game_details lie inside its own.
Decorators(op) ==
    IF op = "get_game_details_single"
    THEN <<"rate_limit", "retry_on_failure", "rate_limit", "retry_on_failure">>
    ELSE <<"rate_limit", "retry_on_failure">>

\* the place of the operation's own body, inside its decorators
BodyLayer(op) == Len(Decorators(op)) + 1

\* the three operations get_user gathers, and the two operations that fan out
CountOps ==
    <<"get_user_follower_count", "get_user_following_count", "get_user_friend_count">>
CountOpSet == {CountOps[i] : i \in DOMAIN CountOps}
FanOps == {"get_user_avatar", "get_user"}

\* the rate_limit decorator of each operation closes over a deque of its own
\* the operations whose body is one try: ... except Exception: return <empty>
SwallowOps ==
    {"get_user_favourite_games", "get_user_currently_wearing", "get_user_limited_items"}

WindowIds == ClientOps \cup CountOpSet \cup FanOps \cup SwallowOps

\* the deque of the gate at layer i of a call of op
Window(op, i) ==
    IF op = "get_game_details_single" /\ i = 3 THEN "get_game_details" ELSE op

RetryLayersOutside(op, i) ==
    {j \in 1 .. (i - 1) : j <= Len(Decorators(op)) /\ Decorators(op)[j] = "retry_on_failure"}

SetMax(S) == CHOOSE x \in S : \A y \in S : y <= x
SetMin(S) == CHOOSE x \in S : \A y \in S : x <= y

OuterRetry(op) == SetMin(RetryLayersOutside(op, BodyLayer(op)))

\* the outermost rate_limit of a call of op
OuterGate(op) ==
    SetMin({i \in DOMAIN Decorators(op) : Decorators(op)[i] = "rate_limit"})

BatchLimit(op) ==
    IF op = "get_users_batch" THEN MaxUsersBatch
    ELSE IF op = "get_user_presence" THEN MaxPresenceBatch
    ELSE MaxGamesBatch

\* mutant of TooMany: the limit is checked one too high
TooMany_offbyone(op, n) == n > BatchLimit(op) + 1

\* if len(user_ids) > 100 (20 for get_user_presence)
TooMany(op, n) == n > BatchLimit(op)

\* the request an operation makes for a list of n identifiers; the list is known
\* by its length alone, and the only parameter is universeIds, the identifiers
\* joined by commas
BatchRequest(op, n) ==
    IF op = "get_users_batch"
    THEN Req("POST", <<"users", <<"/", "v1", "/", "users">>>>, << >>, FALSE)
    ELSE IF op = "get_user_presence"
    THEN Req("POST", <<"presence", <<"/", "v1", "/", "presence", "/", "users">>>>,
             << >>, FALSE)
    ELSE Req("GET", <<"games", <<"/", "v1", "/", "games">>>>,
             <<<<1, StrVal(<<ToString(n)>>)>>>>, TRUE)

\* the request of a count operation for user 1
CountRequest(op) ==
    LET kind == IF op = "get_user_follower_count" THEN "followers"
                ELSE IF op = "get_user_following_count" THEN "followings"
                ELSE "friends"
    IN  Req("GET", <<"friends", <<"/", "v1", "/", "users", "/", "1", "/", kind,
                                  "/", "count">>>>, << >>, TRUE)

\* the request of an operation of SwallowOps for user 1, with the default limit
SwallowRequest(op) ==
    IF op = "get_user_favourite_games"
    THEN Req("GET", <<"games", <<"/", "v2", "/", "users", "/", "1", "/", "favourite",
                                 "/", "games">>>>,
             <<<<1, IntVal(10)>>, <<2, StrVal(<<"Desc">>)>>>>, TRUE)
    ELSE IF op = "get_user_currently_wearing"
    THEN Req("GET", <<"avatar", <<"/", "v1", "/", "users", "/", "1", "/",
                                  "currently-wearing">>>>, << >>, TRUE)
    ELSE Req("GET", <<"inventory", <<"/", "v1", "/", "users", "/", "1", "/", "assets",
                                     "/", "collectibles">>>>,
             <<<<1, StrVal(<<"All">>)>>, <<2, IntVal(10)>>, <<3, StrVal(<<"Desc">>)>>>>,
             TRUE)

\* response.get("count", 0): the count is known by the body that holds it
CountOf(body) == IF body = "dict" THEN "0" ELSE body

ValueError == Err("ValueError", NoInt, "batch limit", NoInt)
AttributeError == Err("AttributeError", NoInt, "NoneType has no attribute get", NoInt)

TaskIdle ==
    [pc |-> "idle", op |-> "get_users_batch", n |-> 0,
     attempt |-> <<0, 0, 0, 0>>, layer |-> 0, wake |-> 0,
     req |-> Req("GET", <<"users", <<"/", "v1">>>>, << >>, FALSE), result |-> NoResult,
     ncall |-> 0, calls |-> 0, tries |-> 0, sleeps |-> << >>, exchanges |-> 0,
     func_raised |-> NoError, body_raised |-> NoError, gate |-> "none"]

\* The run of one call is a machine m: the caller's task m.t, the deques m.w and
\* the cache m.c. The operators below run it from one suspension to the next.

\* the call ends: value is returned through every decorator
Return(m, value) == [m EXCEPT !.t.pc = "done", !.t.result = Ok(value)]

\* an exception leaves layer i: the nearest retry_on_failure outside it catches it,
\* and sleeps or raises it further; with none left it reaches the caller
RECURSIVE Throw(_, _, _)
Throw(m, i, err) ==
    LET op == m.t.op
        js == RetryLayersOutside(op, i)
        j == SetMax(js)
        m1 == IF i = BodyLayer(op) THEN [m EXCEPT !.t.body_raised = err] ELSE m
        m2 == IF j = OuterRetry(op) THEN [m1 EXCEPT !.t.func_raised = err] ELSE m1
        h == RetryHandler(m.t.attempt[j])
    IN  IF js = {}
        THEN [m1 EXCEPT !.t.pc = "done", !.t.result = Raised(err)]
        ELSE IF h.sleep
             THEN [m2 EXCEPT !.t.pc = "sleep", !.t.layer = j,
                             !.t.wake = now + Seconds(h.delay),
                             !.t.sleeps = Append(@, <<j, h.delay>>)]
             ELSE Throw(m2, j, err)

\* mutant of BodyRaises: the except clause of the body does not match
BodyRaises_uncaught(m, err) == Throw(m, BodyLayer(m.t.op), err)

\* an exception is raised in the operation's body, by request or by the code that
\* reads the response: the try of an operation of SwallowOps catches it and the
\* body returns its empty result; elsewhere it leaves the body
BodyRaises(m, err) ==
    IF m.t.op \in SwallowOps THEN Return(m, "empty") ELSE Throw(m, BodyLayer(m.t.op), err)

\* the operation's body goes on with the value request returned
AfterRequest(m, value) ==
    IF value = None
    THEN BodyRaises(m, AttributeError)
    ELSE IF m.t.op \in CountOpSet
    THEN Return(m, CountOf(value))
    ELSE Return(m, "parsed")

\* the operation's body calls HTTPClient.request
StartRequest(m, req) ==
    LET r == RequestLookup(m.c, req, now)
        m1 == [m EXCEPT !.c = r.cache, !.t.req = req]
    IN  IF r.value # None
        THEN AfterRequest(m1, r.value)
        ELSE [m1 EXCEPT !.t.pc = "exchange", !.t.exchanges = @ + 1]

\* the body of a count operation, of an operation of SwallowOps, or of get_users_batch, get_user_presence and
\* get_game_details (which get_game_details_single calls with one identifier), to
\* its first await
Body(m) ==
    LET op == m.t.op
        n == m.t.n
        m1 == [m EXCEPT !.t.calls = @ + 1]
    IN  IF op \in CountOpSet
        THEN StartRequest(m1, CountRequest(op))
        ELSE IF op \in SwallowOps
        THEN StartRequest(m1, SwallowRequest(op))
        ELSE IF op = "get_users_batch"
        THEN IF TooMany(op, n) THEN Throw(m1, BodyLayer(op), ValueError)
             ELSE IF n = 0 THEN Return(m1, "empty")
             ELSE StartRequest(m1, BatchRequest(op, n))
        ELSE IF n = 0 THEN Return(m1, "empty")
             ELSE IF TooMany(op, n) THEN Throw(m1, BodyLayer(op), ValueError)
             ELSE StartRequest(m1, BatchRequest(op, n))

\* mutant of Enter: a call whose response is in the cache returns it before the
\* gate is asked
RECURSIVE Enter_cachefirst(_, _)
Enter_cachefirst(m, i) ==
    LET op == m.t.op
        r == RateLimit(m.w[Window(op, i)], now)
        m1 == [m EXCEPT !.w[Window(op, i)] = r.call_times,
                        !.t.gate = IF i # OuterGate(op) THEN @
                                   ELSE IF r.admitted THEN "admitted" ELSE "rejected"]
        m2 == IF i = OuterRetry(op) THEN [m EXCEPT !.t.tries = 1] ELSE m
        req == IF op \in CountOpSet THEN CountRequest(op)
               ELSE IF op \in SwallowOps THEN SwallowRequest(op)
               ELSE BatchRequest(op, m.t.n)
    IN  IF i = 1 /\ m.t.n > 0 /\ RequestLookup(m.c, req, now).value # None
        THEN Return([m EXCEPT !.c = RequestLookup(m.c, req, now).cache], "parsed")
        ELSE IF i = BodyLayer(op) THEN Body(m)
        ELSE IF Decorators(op)[i] = "rate_limit"
        THEN IF r.admitted
             THEN Enter_cachefirst(m1, i + 1)
             ELSE Throw(m1, i, Err("RateLimitError", NoInt, "rate limited", r.retry_after))
        ELSE Enter_cachefirst([m2 EXCEPT !.t.attempt[i] = 0], i + 1)

\* layer i of the decorated operation is called
RECURSIVE Enter(_, _)
Enter(m, i) ==
    LET op == m.t.op
        r == RateLimit(m.w[Window(op, i)], now)
        m1 == [m EXCEPT !.w[Window(op, i)] = r.call_times,
                        !.t.gate = IF i # OuterGate(op) THEN @
                                   ELSE IF r.admitted THEN "admitted" ELSE "rejected"]
        m2 == IF i = OuterRetry(op) THEN [m EXCEPT !.t.tries = 1] ELSE m
    IN  IF i = BodyLayer(op) THEN Body(m)
        ELSE IF Decorators(op)[i] = "rate_limit"
        THEN IF r.admitted
             THEN Enter(m1, i + 1)
             ELSE Throw(m1, i, Err("RateLimitError", NoInt, "rate limited", r.retry_after))
        ELSE Enter([m2 EXCEPT !.t.attempt[i] = 0], i + 1)

Machine(p) == [t |-> task[p], w |-> windows, c |-> cache]

Commit(p, m) ==
    /\ task' = [task EXCEPT ![p] = m.t]
    /\ windows' = m.w
    /\ cache' = m.c
    /\ UNCHANGED <<stored, recency, cache_last, gateVars, http, pureVars>>

\* caller p calls op with a list of n identifiers
Call(p, op, n) ==
    /\ task[p].pc \in {"idle", "done"}
    /\ task[p].ncall < MaxCalls
    /\ Commit(p, Enter([Machine(p) EXCEPT
                            !.t = [TaskIdle EXCEPT !.op = op, !.n = n,
                                                   !.ncall = task[p].ncall + 1]], 1))
    /\ UNCHANGED now

\* the exchange of caller p ends with resp
Deliver(p, resp) ==
    LET f == RequestFinish(cache, task[p].req, resp, now)
        m == [Machine(p) EXCEPT !.c = f.cache]
    IN  /\ task[p].pc = "exchange"
        /\ Commit(p, IF f.result.kind = "ok"
                     THEN AfterRequest(m, f.result.value)
                     ELSE BodyRaises(m, f.result.error))
        /\ UNCHANGED now

\* the sleep of caller p is over: the loop of its retry_on_failure goes round
Wake(p) ==
    LET j == task[p].layer
        m == [Machine(p) EXCEPT !.t.attempt[j] = @ + 1,
                                !.t.tries = IF j = OuterRetry(task[p].op) THEN @ + 1 ELSE @]
    IN  /\ task[p].pc = "sleep"
        /\ now >= task[p].wake
        /\ Commit(p, Enter(m, j + 1))
        /\ UNCHANGED now

Tasks == {1, 2, 3}
BatchSizes(op) ==
    IF op = "get_game_details_single" THEN {1}
    ELSE {0, BatchLimit(op), BatchLimit(op) + 1}
MaxClientTime == Seconds(MaxClientSeconds)

\* the clock of SpecClient moves to the end of a sleep
ClientTick(t) ==
    /\ t > now
    /\ t <= MaxClientTime
    /\ \E p \in Tasks : task[p].pc = "sleep" /\ t = task[p].wake
    /\ now' = t
    /\ UNCHANGED <<cacheVars, gateVars, windows, task, http, pureVars>>

-----------------------------------------------------------------------------
(* get_user_avatar and get_user: operations that gather three sub-calls *)

\* The sub-calls of get_user_avatar are the requests of callers 1..3 of
\* HTTPClient.get; those of get_user are the count operations, run by tasks 1..3.
Subs == {1, 2, 3}

AvatarRequest(i) ==
    Req("GET",
        <<"thumbnails",
          <<"/", "v1", "/", "users", "/",
            <<"avatar-headshot", "avatar-bust", "avatar">>[i]>>>>,
        <<<<3, StrVal(<<"1">>)>>,
          <<2, StrVal(<<<<"48x48", "48x48", "150x150">>[i]>>)>>,
          <<1, StrVal(<<"Png">>)>>>>,
        TRUE)

UserRequest == Req("GET", <<"users", <<"/", "v1", "/", "users", "/", "1">>>>, << >>, TRUE)

\* _extract_thumbnail_url of a dict: "" without data, else the imageUrl, which is
\* known by the body that holds it
ExtractThumbnailUrl(body) == IF body = "dict" THEN "" ELSE body

FanIdle ==
    [pc |-> "idle", op |-> "get_user", attempt |-> 0, wake |-> 0, req |-> UserRequest,
     result |-> NoResult, runs |-> 0, sleeps |-> << >>,
     primary |-> FALSE, subs |-> [i \in Subs |-> NoResult]]

\* The run of a call of get_user_avatar or get_user is a world w: the caller
\* w.fan, the deques w.windows, the cache w.cache and the sub-calls w.http and
\* w.task.
World == [fan |-> fan, windows |-> windows, cache |-> cache, http |-> http, task |-> task]

\* the body raises err: retry_on_failure catches it, and sleeps or raises it
FanThrow(w, err) ==
    LET h == RetryHandler(w.fan.attempt)
    IN  IF h.sleep
        THEN [w EXCEPT !.fan.pc = "sleep", !.fan.wake = now + Seconds(h.delay),
                       !.fan.sleeps = Append(@, h.delay)]
        ELSE [w EXCEPT !.fan.pc = "done", !.fan.result = Raised(err)]

\* gather starts the i-th request of get_user_avatar
AvatarSub(w, i) ==
    [w EXCEPT !.cache = RequestLookup(w.cache, AvatarRequest(i), now).cache,
              !.http[i] = Requested(w.cache, AvatarRequest(i), now)]

\* gather starts the i-th count operation of get_user
CountSub(w, i) ==
    LET m == Enter([t |-> [TaskIdle EXCEPT !.op = CountOps[i],
                                           !.ncall = w.task[i].ncall],
                    w |-> w.windows, c |-> w.cache], 1)
    IN  [w EXCEPT !.task[i] = m.t, !.windows = m.w, !.cache = m.c]

\* get_user has the body of its profile: it parses it and gathers the counts
UserParsed(w, value) ==
    IF value = None
    THEN FanThrow(w, AttributeError)
    ELSE CountSub(CountSub(CountSub([w EXCEPT !.fan.pc = "join", !.fan.primary = TRUE],
                                    1), 2), 3)

\* the body of get_user_avatar or get_user, to its first await
FanBody(w) ==
    LET w1 == [w EXCEPT !.fan.runs = @ + 1, !.fan.subs = FanIdle.subs]
        r == RequestLookup(w1.cache, UserRequest, now)
    IN  IF w.fan.op = "get_user_avatar"
        THEN AvatarSub(AvatarSub(AvatarSub([w1 EXCEPT !.fan.pc = "join"], 1), 2), 3)
        ELSE IF r.value # None
        THEN UserParsed([w1 EXCEPT !.cache = r.cache], r.value)
        ELSE [w1 EXCEPT !.cache = r.cache, !.fan.pc = "primary"]

FanCommit(w) ==
    /\ fan' = w.fan
    /\ windows' = w.windows
    /\ cache' = w.cache
    /\ http' = w.http
    /\ task' = w.task
    /\ UNCHANGED <<now, stored, recency, cache_last, gateVars, key_last, metrics>>

\* no sub-call of an earlier call is still running
SubsAtRest ==
    \A i \in Subs : http[i].pc \in {"idle", "done"} /\ task[i].pc \in {"idle", "done"}

\* get_user_avatar or get_user is called, once: its gate, then its body
FanCall(op) ==
    LET r == RateLimit(windows[op], now)
        w == [World EXCEPT !.windows[op] = r.call_times,
                           !.fan = [FanIdle EXCEPT !.op = op]]
    IN  /\ fan.pc = "idle"
        /\ SubsAtRest
        /\ FanCommit(IF r.admitted
                     THEN FanBody(w)
                     ELSE [w EXCEPT !.fan.pc = "done",
                                    !.fan.result =
                                        Raised(Err("RateLimitError", NoInt, "rate limited",
                                                   r.retry_after))])

\* the exchange of get_user for the profile ends with resp
FanDeliver(resp) ==
    LET f == RequestFinish(cache, fan.req, resp, now)
        w == [World EXCEPT !.cache = f.cache]
    IN  /\ fan.pc = "primary"
        /\ FanCommit(IF f.result.kind = "ok"
                     THEN UserParsed(w, f.result.value)
                     ELSE FanThrow(w, f.result.error))

\* mutant of Default: a failed sub-call leaves no value in its field
Default_none(op) == None

\* what stands for a sub-call that failed: the thumbnail url of {}, the count 0
Default(op) == IF op = "get_user_avatar" THEN "" ELSE "0"

\* what gather(..., return_exceptions=True) holds for the i-th sub-call
Gathered(op, i) == IF op = "get_user_avatar" THEN http[i].result ELSE task[i].result

\* gather without return_exceptions: the first failure is raised from the body
FanJoin_raising ==
    LET op == fan.op
        got == [i \in Subs |-> Gathered(op, i)]
        failed == {i \in Subs : got[i].kind = "error"}
        w == [World EXCEPT !.fan.subs = got]
    IN  /\ fan.pc = "join"
        /\ \A i \in Subs : got[i].kind # "none"
        /\ FanCommit(IF failed # {}
                     THEN FanThrow(w, got[CHOOSE i \in failed : TRUE].error)
                     ELSE [w EXCEPT !.fan.pc = "done",
                                    !.fan.result =
                                        Ok(<<got[1].value, got[2].value, got[3].value>>)])

\* the three sub-calls have ended: the body goes on from gather. A failed
\* sub-call gives "" (the thumbnail url of {}) or the count 0; a sub-call of
\* get_user_avatar that returned None has no .get
FanJoin ==
    LET op == fan.op
        got == [i \in Subs |-> Gathered(op, i)]
        field == [i \in Subs |->
                     IF got[i].kind = "error"
                     THEN Default(op)
                     ELSE IF op = "get_user_avatar"
                     THEN ExtractThumbnailUrl(got[i].value)
                     ELSE got[i].value]
        w == [World EXCEPT !.fan.subs = got]
    IN  /\ fan.pc = "join"
        /\ \A i \in Subs : got[i].kind # "none"
        /\ IF op = "get_user_avatar" THEN \A i \in Subs : http[i].pc = "done"
                                      ELSE \A i \in Subs : task[i].pc = "done"
        /\ FanCommit(IF op = "get_user_avatar"
                        /\ \E i \in Subs : got[i].kind = "ok" /\ got[i].value = None
                     THEN FanThrow(w, AttributeError)
                     ELSE [w EXCEPT !.fan.pc = "done",
                                    !.fan.result = Ok(<<field[1], field[2], field[3]>>)])

\* the sleep of retry_on_failure is over: the body runs again
FanWake ==
    /\ fan.pc = "sleep"
    /\ now >= fan.wake
    /\ SubsAtRest
    /\ FanCommit(FanBody([World EXCEPT !.fan.attempt = @ + 1]))

\* the clock moves to the end of the sleep of get_user_avatar or get_user
FanTick(t) ==
    /\ t > now
    /\ t <= MaxClientTime
    /\ fan.pc = "sleep" /\ t = fan.wake
    /\ now' = t
    /\ UNCHANGED <<cacheVars, gateVars, windows, task, http, pureVars>>

\* warm_cache: the lengths of user_ids[i : i + chunk_size] for i in
\* range(0, len(user_ids), chunk_size), for a list of n identifiers
Chunks(n) ==
    [i \in 1 .. ((n + chunk_size - 1) \div chunk_size) |->
        IF i * chunk_size <= n THEN chunk_size ELSE n - (i - 1) * chunk_size]

\* mutant of WarmSub: the chunk is fetched with one cached GET per batch
WarmSub_get(w, i, n) ==
    LET m == Enter([t |-> [TaskIdle EXCEPT !.op = "get_game_details", !.n = n],
                    w |-> w.windows, c |-> w.cache], 1)
    IN  [w EXCEPT !.task[i] = m.t, !.windows = m.w, !.cache = m.c]

\* gather starts get_users_batch for the i-th chunk, of n identifiers
WarmSub(w, i, n) ==
    LET m == Enter([t |-> [TaskIdle EXCEPT !.op = "get_users_batch", !.n = n],
                    w |-> w.windows, c |-> w.cache], 1)
    IN  [w EXCEPT !.task[i] = m.t, !.windows = m.w, !.cache = m.c]

RECURSIVE WarmStart(_, _, _)
WarmStart(w, sizes, i) ==
    IF i > Len(sizes) THEN w ELSE WarmStart(WarmSub(w, i, sizes[i]), sizes, i + 1)

\* warm_cache is called, once, with a list of n identifiers
WarmCache(n) ==
    LET w == [World EXCEPT !.fan = [FanIdle EXCEPT !.op = "warm_cache"]]
    IN  /\ fan.pc = "idle"
        /\ \A p \in Tasks : task[p].pc = "idle"
        /\ FanCommit(IF n = 0
                     THEN [w EXCEPT !.fan.pc = "done", !.fan.result = Ok(None)]
                     ELSE WarmStart([w EXCEPT !.fan.pc = "join"], Chunks(n), 1))

\* every get_users_batch of warm_cache has ended: gather returns and so does
\* warm_cache, whatever the calls returned or raised
WarmJoin ==
    /\ fan.op = "warm_cache"
    /\ fan.pc = "join"
    /\ \A p \in Tasks : task[p].pc \in {"idle", "done"}
    /\ fan' = [fan EXCEPT !.pc = "done", !.result = Ok(None),
                          !.subs = [p \in Subs |-> task[p].result]]
    /\ UNCHANGED <<now, cacheVars, gateVars, windows, task, http, key_last, metrics>>

\* the lists warm_cache is called with: none, one chunk, two and three
WarmSizes == {0, 1, chunk_size, chunk_size + 1, 2 * chunk_size + 1, 3 * chunk_size}

\* the answers to the requests of get_user_avatar and to the profile request
FanResponses ==
    {Resp(200, "ok", b, None) : b \in {None, "b1", "b2"}}
    \cup {Resp(0, "transport", "TimeoutError", None)}

\* the answers to the requests of the count operations: the follower count, whose
\* gate can be exhausted, is always answered; the other two may be refused
CountResponses(i) ==
    IF i = 1
    THEN {Resp(200, "ok", "b1", None)}
    ELSE {Resp(200, "ok", "b2", None), Resp(500, "ok", "boom", None)}

Init ==
    /\ now = 0
    /\ cache = << >>
    /\ stored = [k \in Keys |-> NoEntry]
    /\ recency = << >>
    /\ cache_last = NoCacheOp
    /\ call_times = << >>
    /\ gate_last = [outcome |-> "none", retry_after |-> 0, at |-> 0, recent |-> 0,
                    rejected |-> FALSE, admissions |-> << >>]
    /\ windows = [w \in WindowIds |-> << >>]
    /\ task = [p \in Tasks |-> TaskIdle]
    /\ http = [h \in Callers |-> HttpIdle]
    /\ key_last = [i \in {1, 2} |-> NoKey]
    /\ fan = FanIdle
    /\ metrics = << >>

NextCache ==
    \/ \E k \in Keys : CacheGet(k)
    \/ \E k \in Keys, v \in Values : CacheSet(k, v)
    \/ CacheClear
    \/ CacheTick

SpecCache == Init /\ [][NextCache]_vars

NextGate ==
    \/ GateCall
    \/ \E t \in GateTimes : GateTick(t)

SpecGate == Init /\ [][NextGate]_vars

NextHTTP ==
    \/ \E req \in HttpRequests : Request(1, req)
    \/ \E resp \in HttpResponses : Respond(1, resp)
    \/ \E t \in HttpTimes : HttpTick(t)

SpecHTTP == Init /\ [][NextHTTP]_vars

\* two callers of request, interleaved at the await of the exchange
NextFlight ==
    \/ \E h \in {1, 2}, req \in HttpRequests : Request(h, req)
    \/ \E h \in {1, 2}, resp \in HttpResponses : Respond(h, resp)

SpecFlight == Init /\ [][NextFlight]_vars

NextClassify ==
    \/ \E req \in ClassifyRequests : Request(1, req)
    \/ \E resp \in Responses : Respond(1, resp)

SpecClassify == Init /\ [][NextClassify]_vars

NextAvatar ==
    \/ FanCall("get_user_avatar")
    \/ \E i \in Subs, resp \in FanResponses : Respond(i, resp)
    \/ FanJoin
    \/ FanWake
    \/ \E t \in 1 .. MaxClientTime : FanTick(t)

SpecAvatar == Init /\ [][NextAvatar]_vars

NextProfile ==
    \/ FanCall("get_user")
    \/ \E resp \in FanResponses : FanDeliver(resp)
    \/ fan.pc = "idle" /\ Call(1, CountOps[1], 0)
    \/ \E p \in Subs : \E resp \in CountResponses(p) : Deliver(p, resp)
    \/ \E p \in Subs : Wake(p)
    \/ \E t \in 1 .. MaxClientTime : ClientTick(t)
    \/ FanJoin
    \/ FanWake
    \/ \E t \in 1 .. MaxClientTime : FanTick(t)

SpecProfile == Init /\ [][NextProfile]_vars

\* Two callers of get_users_batch, interleaved at the awaits. Caller p calls
\* through an OrbixClient of its own; the POST of get_users_batch uses nothing of
\* that instance but its session.
NextShared ==
    \/ \E p \in {1, 2} : Call(p, "get_users_batch", 1)
    \/ \E p \in {1, 2}, resp \in CountResponses(2) : Deliver(p, resp)
    \/ \E p \in {1, 2} : Wake(p)
    \/ \E t \in 1 .. MaxClientTime : ClientTick(t)

SpecShared == Init /\ [][NextShared]_vars

\* warm_cache, beside a caller of request whose GET fills the cache
NextWarm ==
    \/ \E n \in WarmSizes : WarmCache(n)
    \/ \E p \in Tasks : \E resp \in CountResponses(p) : Deliver(p, resp)
    \/ \E p \in Tasks : Wake(p)
    \/ \E t \in 1 .. MaxClientTime : ClientTick(t)
    \/ WarmJoin
    \/ Request(1, UserRequest)
    \/ Respond(1, Resp(200, "ok", "b1", None))

SpecWarm == Init /\ [][NextWarm]_vars

\* calls of the operations of SwallowOps and, beside them, of get_users_batch
NextSwallow ==
    \/ \E op \in SwallowOps \cup {"get_users_batch"} : Call(1, op, 1)
    \/ \E resp \in Responses : Deliver(1, resp)
    \/ Wake(1)
    \/ \E t \in 1 .. MaxClientTime : ClientTick(t)

SpecSwallow == Init /\ [][NextSwallow]_vars

NextKey == \E i \in {1, 2}, req \in KeyRequests : ComputeKey(i, req)

SpecKey == Init /\ [][NextKey]_vars

NextClient ==
    \/ \E op \in ClientOps : \E n \in BatchSizes(op) : Call(1, op, n)
    \/ \E resp \in HttpResponses : Deliver(1, resp)
    \/ Wake(1)
    \/ \E t \in 1 .. MaxClientTime : ClientTick(t)

SpecClient == Init /\ [][NextClient]_vars

-----------------------------------------------------------------------------
(* Claims about APICache, checked under SpecCache. *)

\* C5: after set(k, v) at time t0, with k not set again, cleared or evicted since,
\* get(k) at time t returns v and keeps the entry when t - t0 <= ttl, and returns
\* None and removes the entry when t - t0 > ttl.
C5_CacheTtl ==
    (cache_last.op = "get" /\ cache_last.before # NoEntry) =>
        IF cache_last.at - cache_last.before.at <= Seconds(ttl)
        THEN /\ cache_last.value = cache_last.before.value
             /\ cache_last.key \in CacheKeys(cache)
        ELSE /\ cache_last.value = None
             /\ cache_last.key \notin CacheKeys(cache)

\* a get has found its entry older than ttl
C5_Witness ==
    /\ cache_last.op = "get"
    /\ cache_last.before # NoEntry
    /\ cache_last.before.value # None
    /\ cache_last.at - cache_last.before.at > Seconds(ttl)
    /\ cache_last.value = None

\* C6: the cache never holds more than max_size entries.
C6_CacheCapacity == Len(cache) <= max_size

\* a set of a new key has run on a full cache
C6_Witness ==
    /\ cache_last.op = "set"
    /\ cache_last.before = NoEntry
    /\ Cardinality(cache_last.keys) = max_size
    /\ Len(cache) = max_size

\* C7: a set of a new key on a full cache removes the key used least recently
\* (by a set or by a get that returned its value), and no other key.
C7_LruEviction ==
    (/\ cache_last.op = "set"
     /\ cache_last.key \notin cache_last.keys
     /\ Cardinality(cache_last.keys) >= max_size) =>
        CacheKeys(cache) = (cache_last.keys \ {cache_last.lru}) \cup {cache_last.key}

\* an eviction where the oldest insertion is not the least recently used key:
\* the key evicted had been set after the key that stays
C7_Witness ==
    /\ cache_last.op = "set"
    /\ cache_last.key \notin cache_last.keys
    /\ Cardinality(cache_last.keys) >= max_size
    /\ cache_last.lru \notin CacheKeys(cache)
    /\ \E k \in CacheKeys(cache) \ {cache_last.key} :
           stored[k].at < cache_last.at /\ recency[1] = k

\* C22: after set(k, v) on a key the cache already held, the cache holds one entry
\* for k, it is the most recently used entry (the last of the OrderedDict), its
\* timestamp is the time of this set, and get(k) returns v for ttl seconds from
\* this set, however old the entry replaced was.
C22_SetReplaces ==
    (cache_last.op = "set" /\ cache_last.before # NoEntry) =>
        LET k == cache_last.key
        IN  /\ Cardinality({i \in DOMAIN cache : cache[i].key = k}) = 1
            /\ cache[Len(cache)].key = k
            /\ cache[Len(cache)].timestamp = cache_last.at
            /\ cache[Len(cache)].value = cache_last.value
            /\ APICache_get(cache, k, now).value =
                   IF now - cache_last.at <= Seconds(ttl) THEN cache_last.value ELSE None

\* a set replaced an older entry with another value, while that key was the least
\* recently used of two, and ttl seconds after the older entry was stored the get
\* still returns the new value
C22_Witness ==
    /\ cache_last.op = "set"
    /\ cache_last.before # NoEntry
    /\ cache_last.before.value # cache_last.value
    /\ cache_last.before.at < cache_last.at
    /\ Cardinality(cache_last.keys) = 2
    /\ cache_last.lru = cache_last.key
    /\ now - cache_last.before.at > Seconds(ttl)
    /\ APICache_get(cache, cache_last.key, now).value = cache_last.value

-----------------------------------------------------------------------------
(* Claims about rate_limit, checked under SpecGate. *)

\* C1: a call that arrives when calls_per_minute admitted calls are less than 60 s
\* old is rejected with RateLimitError; a call that arrives when fewer are (the
\* older ones have aged 60 s or more) is admitted.
C1_RateGate ==
    /\ (gate_last.outcome # "none" /\ gate_last.recent >= calls_per_minute)
           => gate_last.outcome = "RateLimitError"
    /\ (gate_last.outcome # "none" /\ gate_last.recent < calls_per_minute)
           => gate_last.outcome = "admitted"

\* a call was rejected, and once the window had aged a later call was admitted
C1_Witness ==
    /\ gate_last.outcome = "admitted"
    /\ gate_last.rejected
    /\ Len(gate_last.admissions) > calls_per_minute

\* C13: a rejection at time now, with t0 the oldest timestamp left in the deque,
\* carries retry_after = ceil(60 - (now - t0)): the least whole number of seconds
\* that is not less than the time left.
C13_RetryAfterCeil ==
    gate_last.outcome = "RateLimitError" =>
        LET left == Seconds(WindowSeconds) - (gate_last.at - Head(call_times))
        IN  /\ Seconds(gate_last.retry_after) >= left
            /\ Seconds(gate_last.retry_after - 1) < left

\* C23, as stated: in every reachable state, also while time advances between
\* two calls, every timestamp in the deque is >= now - 60 s.
C23_WindowAlwaysFresh ==
    \A i \in DOMAIN call_times : call_times[i] >= now - Seconds(WindowSeconds)

\* C23, amended: at every admission check, that is in the deque a call leaves and
\* at the time of that call, every timestamp is >= now - 60 s; the older ones
\* were purged by that call before it checked.
C23_WindowFreshAtCheck ==
    gate_last.outcome # "none" =>
        \A i \in DOMAIN call_times :
            call_times[i] >= gate_last.at - Seconds(WindowSeconds)

\* a call found every earlier admission 60 s old or older, purged them all and
\* was admitted
C23_Witness ==
    /\ gate_last.outcome = "admitted"
    /\ Len(gate_last.admissions) = calls_per_minute + 1
    /\ call_times = <<gate_last.at>>
    /\ now > gate_last.at

-----------------------------------------------------------------------------
(* Claims about HTTPClient.request, checked under SpecHTTP. *)

IsCached(req) == req.method = "GET" /\ req.use_cache

\* C8: a GET with use_cache that finds a live entry for its key in the cache
\* returns the cached value, with no exchange and no classification.
C8_HitBypassesNetwork ==
    \A h \in Callers :
        (http[h].pc # "idle" /\ IsCached(http[h].req) /\ http[h].live.present) =>
            /\ http[h].pc = "done"
            /\ http[h].result = Ok(http[h].live.value)
            /\ ~http[h].exchanged

\* C9: a GET with use_cache that succeeds has stored the parsed body under its key
\* when request returns, and a GET that finds that entry live is served from the
\* cache.
C9_SuccessPopulatesCache ==
    \A h \in Callers :
        /\ (/\ http[h].pc = "done" /\ IsCached(http[h].req)
            /\ http[h].exchanged /\ http[h].result.kind = "ok") =>
               /\ CacheKey(http[h].req) \in CacheKeys(cache)
               /\ Entry(cache, CacheKey(http[h].req)).value = http[h].result.value
        /\ (/\ http[h].pc = "done" /\ IsCached(http[h].req)
            /\ http[h].live.present) => ~http[h].exchanged

\* C10: a request whose method is not GET, or whose use_cache is false, leaves the
\* cache as it is from its call to its return, and is answered by an exchange.
C10_OnlyGetIsCached ==
    \A h \in Callers :
        (http[h].pc # "idle" /\ ~IsCached(http[h].req)) =>
            /\ ~http[h].touched
            /\ http[h].exchanged

\* a POST with use_cache set has succeeded beside a cache that holds entries
C10_Witness ==
    /\ http[1].pc = "done"
    /\ http[1].req.method = "POST"
    /\ http[1].req.use_cache
    /\ http[1].result.kind = "ok"
    /\ cache # << >>

\* the request of caller h went to the exchange and ended in an error
EndedInError(h) ==
    http[h].pc = "done" /\ http[h].exchanged /\ http[h].result.kind = "error"

\* C31: a request that ends in any error (404, 429, another status that is not
\* 200, or a failure of the transport) leaves the cache unchanged: it has added,
\* replaced and removed no entry, so no error response is served from the cache.
C31_ErrorLeavesCache ==
    \A h \in Callers :
        EndedInError(h) =>
            /\ ~http[h].written
            /\ http[h].removed = {}
            /\ \A i \in DOMAIN cache : cache[i].value \in Bodies

\* C31, amended: a request that ends in any error has added and replaced no entry,
\* and has removed none but the entry of its own key when its lookup found that
\* entry older than ttl; the cache holds bodies of 200 responses only, and a
\* request served from the cache returns such a body.
C31_ErrorWritesNothing ==
    \A h \in Callers :
        /\ EndedInError(h) =>
               /\ ~http[h].written
               /\ http[h].removed \subseteq {CacheKey(http[h].req)}
               /\ http[h].removed # {} => IsCached(http[h].req) /\ ~http[h].live.present
               /\ \A i \in DOMAIN cache : cache[i].value \in Bodies
        /\ (http[h].pc = "done" /\ ~http[h].exchanged) =>
               /\ http[h].result.kind = "ok"
               /\ http[h].result.value \in Bodies

\* a GET with use_cache was answered 500 after its lookup had deleted the expired
\* entry of its key, beside the live entry of another key, which is still there
C31_Witness ==
    /\ EndedInError(1)
    /\ http[1].resp.status = 500
    /\ http[1].removed = {CacheKey(http[1].req)}
    /\ cache # << >>

-----------------------------------------------------------------------------
(* Claims about the classification of responses, checked under SpecClassify. *)

\* the exchange of caller h has been answered with a response of this status
Answered(h, status) ==
    /\ http[h].pc = "done" /\ http[h].exchanged
    /\ http[h].resp.json # "transport" /\ http[h].resp.status = status

\* C15: a 429 is raised as RateLimitError, with retry_after the integer of the
\* Retry-After header when the header is there and None when it is missing.
C15_TooManyRequests ==
    \A h \in Callers :
        Answered(h, 429) =>
            /\ http[h].result.kind = "error"
            /\ http[h].result.error.type = "RateLimitError"
            /\ http[h].resp.header = None => http[h].result.error.retry_after = NoInt
            /\ http[h].resp.header = "7" => http[h].result.error.retry_after = 7

\* the path names one user: a piece follows "users/"
UserPath(path) ==
    \E i \in 1 .. (Len(path) - 2) : path[i] = "users" /\ path[i + 1] = "/"

C17_OtherStatus ==
    \A h \in Callers :
        Answered(h, 500) =>
            /\ http[h].result.kind = "error"
            /\ http[h].result.error.type = "RobloxAPIError"
            /\ http[h].result.error.status = 500
            /\ http[h].resp.body = "boom" => http[h].result.error.message = "boom"
            /\ http[h].resp.json # "ok" => http[h].result.error.message = "HTTP status"

\* C18: a failure of the exchange itself is raised as NetworkError carrying its
\* cause; UserNotFoundError, RateLimitError and RobloxAPIError are raised as the
\* classification made them, and a classified response never ends as NetworkError.
C18_NetworkError ==
    \A h \in Callers :
        (http[h].pc = "done" /\ http[h].exchanged) =>
            /\ http[h].resp.json = "transport" =>
                   http[h].result =
                       Raised(Err("NetworkError", NoInt, http[h].resp.body, NoInt))
            /\ (/\ http[h].result.kind = "error"
                /\ http[h].result.error.type \in
                       {"UserNotFoundError", "RateLimitError", "RobloxAPIError"}) =>
                   /\ http[h].resp.status \notin {0, 200}
                   /\ http[h].result.error = HandleResponseErrors(http[h].resp, http[h].req)
            /\ (http[h].resp.json # "transport" /\ http[h].resp.status # 200) =>
                   /\ http[h].result.kind = "error"
                   /\ http[h].result.error.type # "NetworkError"

\* a timeout of the exchange has been raised as NetworkError
C18_Witness ==
    /\ http[1].pc = "done" /\ http[1].exchanged
    /\ http[1].resp = Resp(0, "transport", "TimeoutError", None)
    /\ http[1].result.error.type = "NetworkError"

-----------------------------------------------------------------------------
(* Claims about the cache key, checked under SpecKey. *)

\* two dicts hold the same name/value pairs
SameMapping(p, q) == {p[i] : i \in DOMAIN p} = {q[i] : i \in DOMAIN q}

\* C11: two requests with the same method, the same resolved url and the same
\* name/value pairs, in whatever order the pairs were inserted, have the same
\* cache key; two requests that differ in the method, the resolved url or a
\* parameter have different keys.
C11_KeyDeterminism ==
    (key_last[1].computed /\ key_last[2].computed) =>
        LET a == key_last[1].req
            b == key_last[2].req
        IN  (key_last[1].key = key_last[2].key) <=>
                /\ a.method = b.method
                /\ ResolveUrl(a.url) = ResolveUrl(b.url)
                /\ SameMapping(a.params, b.params)

\* the same two pairs inserted in opposite orders have given one key
C11_Witness ==
    /\ key_last[1].computed /\ key_last[2].computed
    /\ Len(key_last[1].req.params) = 2
    /\ key_last[1].req.params # key_last[2].req.params
    /\ SameMapping(key_last[1].req.params, key_last[2].req.params)
    /\ key_last[1].key = key_last[2].key

-----------------------------------------------------------------------------
(* Claims about retry_on_failure and the batch operations, checked under   *)
(* SpecClient.                                                             *)

\* the delays of max_retries retries: backoff_factor * 2^i for i = 0, 1, ...
Backoffs == [i \in 1 .. max_retries |-> backoff_factor * Pow2(i - 1)]

\* history: the delays of the sleeps of layer j, in order
SleepsOf(t, j) ==
    LET mine == SelectSeq(t.sleeps, LAMBDA x : x[1] = j)
    IN  [i \in DOMAIN mine |-> mine[i][2]]

\* the call was admitted by the outermost gate and has ended with an exception
FailedThroughRetry(t) == t.pc = "done" /\ t.result.kind = "error" /\ t.tries > 0

\* C2: when the function wrapped by retry_on_failure fails on every attempt, it has
\* been invoked max_retries + 1 times, the sleeps between the attempts were
\* backoff_factor * 2^i for i = 0 .. max_retries - 1 with none after the last
\* attempt, and the exception raised is the one the last attempt raised.
C2_RetryPolicy ==
    \A p \in Tasks :
        FailedThroughRetry(task[p]) =>
            /\ task[p].tries = max_retries + 1
            /\ SleepsOf(task[p], OuterRetry(task[p].op)) = Backoffs
            /\ \A i \in 1 .. (max_retries - 1) : Backoffs[i] <= Backoffs[i + 1]
            /\ task[p].result = Raised(task[p].func_raised)

\* every attempt of get_users_batch ended in an upstream 404, the last one too
C2_Witness ==
    /\ FailedThroughRetry(task[1])
    /\ task[1].op = "get_users_batch"
    /\ task[1].exchanges = max_retries + 1
    /\ task[1].result.error.status = 404

\* C24: retry_on_failure never invokes the function more than max_retries + 1
\* times, and a call that returns a value has stopped at the first attempt that
\* succeeded: with k attempts failed before it (k <= max_retries), the function
\* was invoked k + 1 times, the sleeps were the first k backoff delays, and the
\* value, not an earlier exception, is what the caller gets. For an operation
\* under one retry_on_failure the function is the operation's body.
C24_RetryStops ==
    \A p \in Tasks :
        /\ task[p].tries <= max_retries + 1
        /\ (task[p].pc = "done" /\ task[p].result.kind = "ok") =>
               LET slept == SleepsOf(task[p], OuterRetry(task[p].op))
                   k == Len(slept)
               IN  /\ k <= max_retries
                   /\ task[p].tries = k + 1
                   /\ slept = SubSeq(Backoffs, 1, k)
                   /\ Len(Decorators(task[p].op)) = 2 => task[p].calls = k + 1

\* get_users_batch failed twice and returned the users on its third attempt
C24_Witness ==
    /\ task[1].pc = "done"
    /\ task[1].op = "get_users_batch"
    /\ task[1].result.kind = "ok"
    /\ task[1].func_raised # NoError
    /\ task[1].tries = 3
    /\ task[1].exchanges = 3

\* C3: a call that ends with the ValueError of the batch size check has executed
\* the operation's body once and has not slept.
C3_ValidationNotRetried ==
    \A p \in Tasks :
        (task[p].pc = "done" /\ task[p].result = Raised(ValueError)) =>
            /\ task[p].calls = 1
            /\ task[p].sleeps = << >>

\* C4: a call with more identifiers than the operation's limit makes no exchange in
\* any attempt; every execution of its body raises ValueError, and the call ends
\* with that ValueError (a call its rate gate rejected never runs its body, and
\* ends with RateLimitError).
C4_OversizeFailsFast ==
    \A p \in Tasks :
        (task[p].pc # "idle" /\ task[p].n > BatchLimit(task[p].op)) =>
            /\ task[p].exchanges = 0
            /\ task[p].pc # "exchange"
            /\ task[p].calls > 0 => task[p].body_raised = ValueError
            /\ task[p].pc = "done" =>
                   /\ task[p].result.kind = "error"
                   /\ task[p].calls > 0 => task[p].result = Raised(ValueError)
                   /\ task[p].calls = 0 => task[p].result.error.type = "RateLimitError"

\* a call of get_user_presence with 21 identifiers has ended after all its attempts
C4_Witness ==
    /\ task[1].pc = "done"
    /\ task[1].op = "get_user_presence"
    /\ task[1].n = MaxPresenceBatch + 1
    /\ task[1].calls = max_retries + 1
    /\ task[1].result = Raised(ValueError)

\* the last gather of get_user_avatar ended, and every sub-call that succeeded
\* returned a dict
AvatarGathered ==
    /\ fan.op = "get_user_avatar"
    /\ \A i \in Subs : fan.subs[i].kind # "none"
    /\ \A i \in Subs : fan.subs[i].kind = "ok" => fan.subs[i].value # None

ProfileFetched == fan.op = "get_user" /\ fan.primary

\* C20: once get_user has fetched and parsed the profile, it only waits for the
\* three count operations and returns: it never sleeps for a retry and never
\* raises, and the profile it returns holds the count 0 for every count
\* operation that failed, whether its own gate rejected it or its request
\* failed, and the returned count for every one that succeeded.
C20_ProfileFanOut ==
    ProfileFetched =>
        /\ fan.pc \in {"join", "done"}
        /\ fan.pc = "done" =>
               /\ fan.result.kind = "ok"
               /\ \A i \in Subs :
                      fan.result.value[i] = IF fan.subs[i].kind = "error"
                                            THEN "0"
                                            ELSE fan.subs[i].value

\* the follower count was rejected by its gate, the following count failed
\* through its retries and the friend count was returned
C20_Witness ==
    /\ ProfileFetched
    /\ fan.pc = "done"
    /\ task[1].gate = "rejected"
    /\ fan.subs[1].kind = "error" /\ fan.subs[1].error.type = "RateLimitError"
    /\ fan.subs[2].kind = "error" /\ fan.subs[2].error.status = 500
    /\ task[2].tries = max_retries + 1
    /\ fan.result = Ok(<<"0", "0", "b2">>)

\* C25: two callers of request for the same GET cache key that both found no
\* live entry each make an exchange of their own, so that both exchanges can be
\* in flight at once, and each ends with what its own exchange answered: the
\* body of its own response, or the error of its own response.
C25_NoSingleFlight ==
    \A h, g \in Callers :
        (/\ h # g
         /\ http[h].pc # "idle" /\ http[g].pc # "idle"
         /\ IsCached(http[h].req)
         /\ CacheKey(http[h].req) = CacheKey(http[g].req)
         /\ ~http[h].live.present /\ ~http[g].live.present) =>
            /\ http[h].exchanged
            /\ http[h].pc \in {"exchange", "done"}
            /\ http[h].pc = "done" =>
                   /\ http[h].resp # NoResp
                   /\ IF http[h].resp.status = 200
                      THEN http[h].result = Ok(http[h].resp.body)
                      ELSE http[h].result.kind = "error"

\* the second caller's exchange started while the first one's was in flight; the
\* two were answered differently and each caller has its own answer
C25_Witness ==
    /\ http[1].pc = "done" /\ http[2].pc = "done"
    /\ IsCached(http[1].req)
    /\ CacheKey(http[1].req) = CacheKey(http[2].req)
    /\ ~http[1].live.present /\ ~http[2].live.present
    /\ http[1].result = Ok("b1")
    /\ http[2].result.kind = "error"

\* C26: however the calls of concurrent callers interleave at their awaits, no
\* deque ever holds more than calls_per_minute timestamps.
C26_WindowBound == \A b \in WindowIds : Len(windows[b]) <= calls_per_minute

\* while one caller is suspended in its admitted call and the deque is full,
\* another caller has been rejected
C26_Witness ==
    /\ task[1].pc \in {"exchange", "sleep"}
    /\ task[1].gate = "admitted"
    /\ task[2].pc = "done"
    /\ task[2].gate = "rejected"
    /\ task[2].op = task[1].op
    /\ Len(windows[task[1].op]) = calls_per_minute

\* the calls of get_users_batch made so far through the two client instances
CallsOfBoth == task[1].ncall + task[2].ncall

\* C27: the deque of get_users_batch is one for both client instances. While no
\* timestamp is 60 s old, it holds one timestamp for every call made through
\* either instance, up to calls_per_minute; a call is rejected only when the
\* calls through both instances together exceed calls_per_minute, and once they
\* do the latest call, through whichever instance, is rejected.
C27_WindowShared ==
    /\ Len(windows["get_users_batch"]) =
           (IF CallsOfBoth < calls_per_minute THEN CallsOfBoth ELSE calls_per_minute)
    /\ \A p \in {1, 2} : task[p].gate = "rejected" => CallsOfBoth > calls_per_minute
    /\ CallsOfBoth > calls_per_minute => \E p \in {1, 2} : task[p].gate = "rejected"

\* the first call through the second instance is rejected: the first instance
\* had used the whole limit
C27_Witness ==
    /\ task[1].ncall = calls_per_minute
    /\ task[1].gate = "admitted"
    /\ task[2].ncall = 1
    /\ task[2].gate = "rejected"
    /\ task[2].result.error.type = "RateLimitError"

\* C21: every exchange of HTTPClient.request is bracketed by
\* PerformanceMonitor.track_request, so that when a request has ended after an
\* exchange, by a return or by an exception, a metric record of it is in the list.
C21_HookBrackets ==
    \A h \in Callers :
        (http[h].pc = "done" /\ http[h].exchanged) => metrics # << >>

\* C12: the rate gate of an operation is checked at every call, before the retry
\* loop, the operation's body, any exchange and any sleep; a call the gate rejects
\* has ended at once with RateLimitError, its body never run, with no retry
\* attempt, no exchange and no sleep.
C12_GateFirst ==
    \A p \in Tasks :
        task[p].pc # "idle" =>
            /\ task[p].gate \in {"admitted", "rejected"}
            /\ (\/ task[p].tries > 0 \/ task[p].calls > 0
                \/ task[p].exchanges > 0 \/ task[p].sleeps # << >>)
                   => task[p].gate = "admitted"
            /\ task[p].gate = "rejected" =>
                   /\ task[p].pc = "done"
                   /\ task[p].result.kind = "error"
                   /\ task[p].result.error.type = "RateLimitError"
                   /\ task[p].tries = 0 /\ task[p].calls = 0
                   /\ task[p].exchanges = 0 /\ task[p].sleeps = << >>

\* the gate of get_users_batch has rejected the third call of a minute
C12_Witness ==
    /\ task[1].gate = "rejected"
    /\ task[1].op = "get_users_batch"
    /\ task[1].ncall = calls_per_minute + 1
    /\ task[1].result.error.type = "RateLimitError"

\* the request the operation of task t makes
OpRequest(t) ==
    IF t.op \in CountOpSet THEN CountRequest(t.op)
    ELSE IF t.op \in SwallowOps THEN SwallowRequest(t.op)
    ELSE BatchRequest(t.op, t.n)

\* C28: a call of an operation asks the gate before anything else. An admitted
\* call appends one timestamp, the time of the call, to the purged deque of its
\* operation, and no later step of the call (a cache hit, an exchange, a failure,
\* a retry) changes that deque again; a rejected call leaves the purged deque and
\* the cache as they are and ends with RateLimitError, whatever the cache holds.
C28_AdmissionFirst ==
    [][\A p \in Tasks :
           LET op == task'[p].op
               w == Purge(windows[op], now)
           IN  IF task'[p].ncall # task[p].ncall
               THEN IF task'[p].gate = "admitted"
                    THEN windows'[op] = Append(w, now)
                    ELSE /\ windows'[op] = w
                         /\ cache' = cache
                         /\ task'[p].pc = "done"
                         /\ task'[p].result.kind = "error"
                         /\ task'[p].result.error.type = "RateLimitError"
               ELSE task'[p] # task[p] => windows'[op] = windows[op]]_vars

\* a call of get_user_favourite_games was rejected while the cache held a live
\* response for it, which an earlier call had been served
C28_Witness ==
    /\ task[1].gate = "rejected"
    /\ task[1].op = "get_user_favourite_games"
    /\ Live(cache, CacheKey(OpRequest(task[1])), now).present
    /\ Live(cache, CacheKey(OpRequest(task[1])), now).value # None

\* C29: no step of warm_cache or of the calls it gathers changes the cache: each
\* call is a get_users_batch of at most chunk_size identifiers, whose request is
\* a POST that neither reads nor writes the cache, so the entries, their order
\* and their timestamps stay as they were.
C29_WarmCacheFrame ==
    [][(fan' # fan \/ task' # task) =>
           /\ cache' = cache
           /\ \A p \in Tasks :
                  task'[p].pc # "idle" =>
                      /\ task'[p].op = "get_users_batch"
                      /\ task'[p].n <= chunk_size
                      /\ task'[p].pc = "exchange" => task'[p].req.method = "POST"]_vars

\* warm_cache has returned after three chunks, of which one was answered, one
\* failed through its retries and one was rejected by the gate, and the entry
\* another caller had stored is still the only one
C29_Witness ==
    /\ fan.op = "warm_cache"
    /\ fan.pc = "done"
    /\ fan.subs[1].kind = "ok"
    /\ fan.subs[2].kind = "error" /\ fan.subs[2].error.status = 500
    /\ fan.subs[3].kind = "error" /\ fan.subs[3].error.type = "RateLimitError"
    /\ Len(cache) = 1
    /\ cache[1].timestamp = 0

\* C30: a call of get_user_favourite_games, get_user_currently_wearing or
\* get_user_limited_items that its gate admitted runs its body once, makes at most
\* one exchange, never sleeps for a backoff and returns a value, whatever the
\* exchange answered.
C30_FailuresSwallowed ==
    \A p \in Tasks :
        (task[p].op \in SwallowOps /\ task[p].gate = "admitted") =>
            /\ task[p].pc \in {"exchange", "done"}
            /\ task[p].calls = 1
            /\ task[p].tries = 1
            /\ task[p].exchanges <= 1
            /\ task[p].sleeps = << >>
            /\ task[p].pc = "done" => task[p].result.kind = "ok"

\* a call of get_user_limited_items whose one exchange failed has returned the
\* empty result
C30_Witness ==
    /\ task[1].op = "get_user_limited_items"
    /\ task[1].pc = "done"
    /\ task[1].exchanges = 1
    /\ task[1].result = Ok("empty")
    /\ cache = << >>

\* C14: a step of a call of one operation (its admission or rejection, and all
\* that follows from it) changes the window of no other operation.
C14_WindowsPerOperation ==
    [][\A p \in Tasks :
           task'[p] # task[p] =>
               \A b \in WindowIds \ {task'[p].op} : windows'[b] = windows[b]]_vars

====
